---- MODULE Spec2Model ----
(***************************************************************************)
(* Model of generate_manifest.py: the configuration check of main, the     *)
(* directory scan of scan_files, the chunked hashing of sha256_file and    *)
(* the manifest assembly and write of generate.                            *)
(*                                                                         *)
(* Strings are sequences of atoms.  The atoms "/" and "\\" are the two     *)
(* separator characters; every other atom stands for a run of ordinary     *)
(* characters, so <<"mods">> is the name mods and <<"a","\\","b">> is the  *)
(* name a\b.  Paths kept by the file system are sequences of names         *)
(* relative to the base directory.                                         *)
(***************************************************************************)
EXTENDS Integers, Sequences, FiniteSets, TLC

VARIABLES sep, chunk, cfgExists, config, fs, pc, exitStatus, runs, gen,
          files, scanIdx, walk, cur, scanned, outputs, manifestAtStart,
          generateCalled, envCount
(***************************************************************************)
(* sep              the path separator of the host: "/" or "\\"            *)
(* chunk            the size given to f.read in sha256_file                *)
(* cfgExists        whether the configuration path exists                  *)
(* config           the parsed configuration, a mapping from keys          *)
(* fs               the file system under the base directory               *)
(* pc               the statement the run is at                            *)
(* exitStatus       the exit status of the run, Running before it ends     *)
(* runs             the number of the run, counted from 1                  *)
(* gen              the locals generate reads from the configuration       *)
(* files            the list scan_files builds                             *)
(* scanIdx          the position of the loop over SCAN_DIRS                *)
(* walk             os.walk: directories still to visit, the current root  *)
(*                  and the file names of the root not yet handled         *)
(* cur              the file being handled: filename, filepath, rel_path,  *)
(*                  size, the hasher h, the offset pos of the open file    *)
(* scanned          history: for each record of files, the path of the     *)
(*                  file, its content when opened, the bytes fed to h      *)
(* outputs          history: the manifests written, one for each run that  *)
(*                  reached json.dump                                      *)
(* manifestAtStart  history: manifest.json as it was when the run began    *)
(* generateCalled   history: whether the run has called generate           *)
(* envCount         the number of writes other processes have made         *)
(***************************************************************************)

vars == <<sep, chunk, cfgExists, config, fs, pc, exitStatus, runs, gen,
          files, scanIdx, walk, cur, scanned, outputs, manifestAtStart,
          generateCalled, envCount>>

(***************************************************************************)
(* Bounds of the model.                                                    *)
(***************************************************************************)
MaxNodes == 5
MaxContent == 2
MaxChunk == 2
MaxRuns == 2
MaxEnv == 1

(***************************************************************************)
(* Values.                                                                 *)
(***************************************************************************)
\* Python's None where a string may stand; no string of the model is this atom
None == <<"None">>
\* a path that names nothing, and the doc of a file that holds no manifest
Absent == [kind |-> "absent"]
NoDoc == [none |-> TRUE]
Slash == "/"
Backslash == "\\"
Bytes == {0, 1}
Running == 0 - 1

SCAN_DIRS == << <<"mods">>, <<"resourcepacks">>, <<"shaderpacks">>, <<"config">> >>
ManifestName == <<"manifest.json">>
RequiredKeys == <<"dir", "base_url", "mc_version">>
OptionalKeys == {"loader_type", "loader_version", "java_args", "server_address"}

Range(s) == {s[i] : i \in 1..Len(s)}
Min(a, b) == IF a < b THEN a ELSE b

(***************************************************************************)
(* String and path functions of the host (os.path, str).                   *)
(***************************************************************************)
\* the characters the host treats as path separators
Seps(hostsep) == IF hostsep = Backslash THEN {Backslash, Slash} ELSE {Slash}

RECURSIVE SplitAcc(_, _, _, _)
SplitAcc(s, seps, part, acc) ==
    IF s = <<>>
      THEN (IF part = <<>> THEN acc ELSE Append(acc, part))
      ELSE IF Head(s) \in seps
        THEN SplitAcc(Tail(s), seps, <<>>,
                      IF part = <<>> THEN acc ELSE Append(acc, part))
        ELSE SplitAcc(Tail(s), seps, Append(part, Head(s)), acc)

\* the non-empty components of a path string
SplitPath(s, hostsep) == SplitAcc(s, Seps(hostsep), <<>>, <<>>)

RECURSIVE JoinWith(_, _)
JoinWith(parts, s) ==
    IF parts = <<>> THEN <<>>
    ELSE IF Len(parts) = 1 THEN parts[1]
    ELSE parts[1] \o <<s>> \o JoinWith(Tail(parts), s)

\* os.path.join(a, b) for a relative b
join(a, b, hostsep) ==
    IF a = <<>> \/ a[Len(a)] \in Seps(hostsep)
      THEN a \o b
      ELSE a \o <<hostsep>> \o b

RECURSIVE CommonLen(_, _)
CommonLen(p, q) ==
    IF p = <<>> \/ q = <<>> \/ Head(p) # Head(q) THEN 0
    ELSE 1 + CommonLen(Tail(p), Tail(q))

\* os.path.relpath(path, start)
relpath(path, start, hostsep) ==
    LET p == SplitPath(path, hostsep)
        s == SplitPath(start, hostsep)
        i == CommonLen(p, s)
        ups == [k \in 1..(Len(s) - i) |-> <<".">> \o <<".">>]
        rel == ups \o SubSeq(p, i + 1, Len(p))
    IN  IF rel = <<>> THEN <<".">> ELSE JoinWith(rel, hostsep)

\* str.replace(old, new) for one-character old and new
replace(s, old, new) == [i \in 1..Len(s) |-> IF s[i] = old THEN new ELSE s[i]]

\* str.rstrip(c)
RECURSIVE rstrip(_, _)
rstrip(s, c) ==
    IF s # <<>> /\ s[Len(s)] = c THEN rstrip(SubSeq(s, 1, Len(s) - 1), c) ELSE s

(***************************************************************************)
(* hashlib.sha256: the accumulator is a number, update folds the bytes in  *)
(* order, hexdigest renders the accumulator as four hexadecimal digits.    *)
(***************************************************************************)
sha256_new == 0

RECURSIVE sha256_update(_, _)
sha256_update(h, data) ==
    IF data = <<>> THEN h
    ELSE sha256_update(((h * 31) + Head(data) + 1) % 65536, Tail(data))

HexDigits == <<"0","1","2","3","4","5","6","7","8","9","a","b","c","d","e","f">>

hexdigest(h) ==
    << HexDigits[((h \div 4096) % 16) + 1], HexDigits[((h \div 256) % 16) + 1],
       HexDigits[((h \div 16) % 16) + 1], HexDigits[(h % 16) + 1] >>

(***************************************************************************)
(* The file system under the base directory.  fs maps a path (a sequence   *)
(* of names) to a node.  kind is "file", "dir" or "link"; a link is a      *)
(* symbolic link to the base directory.  fault is the error the host       *)
(* raises on the node: "stat" (dangling link), "open" (permission          *)
(* denied), "read" (I/O error in the stream), "list" (a directory that     *)
(* cannot be listed) or "none".                                            *)
(***************************************************************************)
Node(kind, content, fault, doc) ==
    [kind |-> kind, content |-> content, fault |-> fault, doc |-> doc]

IsPrefix(p, q) == Len(p) <= Len(q) /\ SubSeq(q, 1, Len(p)) = p

\* follows the symbolic links on the way to a path
RECURSIVE Resolve(_, _)
Resolve(f, path) ==
    LET hits == {i \in 1..Len(path) :
                    /\ SubSeq(path, 1, i) \in DOMAIN f
                    /\ f[SubSeq(path, 1, i)].kind = "link"}
    IN  IF hits = {} THEN path
        ELSE LET i == CHOOSE j \in hits : \A k \in hits : j <= k
             IN  Resolve(f, SubSeq(path, i + 1, Len(path)))

\* os.path.isdir, DirEntry.is_dir(): follow links
isdir(f, path) ==
    LET r == Resolve(f, path)
    IN  r = <<>> \/ (r \in DOMAIN f /\ f[r].kind = "dir")

\* os.path.islink: the last name of the path is not followed
islink(f, path) ==
    LET p == Resolve(f, SubSeq(path, 1, Len(path) - 1)) \o <<path[Len(path)]>>
    IN  path # <<>> /\ p \in DOMAIN f /\ f[p].kind = "link"

\* names listed by os.scandir in the directory at path; os.walk is called
\* without onerror, so a directory that cannot be listed yields no names
Listing(f, path) ==
    LET r == Resolve(f, path)
    IN  IF r \in DOMAIN f /\ f[r].fault = "list" THEN {}
        ELSE {n[Len(n)] : n \in {m \in DOMAIN f : Len(m) = Len(r) + 1 /\ IsPrefix(r, m)}}

\* the path of a path string relative to the base directory
PathOf(str, base, hostsep) ==
    LET p == SplitPath(str, hostsep)
        b == SplitPath(base, hostsep)
    IN  SubSeq(p, Len(b) + 1, Len(p))

\* all orders in which a directory listing can enumerate a set of names
Orders(S) == {q \in [1..Cardinality(S) -> S] : Range(q) = S}

(***************************************************************************)
(* json.dump: the text of a manifest, kept as a length only: one unit for  *)
(* the document and one for each File Record.  The node written keeps the  *)
(* document itself in doc.                                                 *)
(***************************************************************************)
json_dump(doc) == <<1>> \o [i \in 1..Len(doc.files) |-> 0]

\* the file system after open(output_path, "w") and json.dump
WriteFile(f, name, doc) ==
    [p \in DOMAIN f \cup {<<name>>} |->
        IF p = <<name>> THEN Node("file", json_dump(doc), "none", doc) ELSE f[p]]

(***************************************************************************)
(* Inputs: configurations and directory trees.                             *)
(***************************************************************************)
DefaultConfig ==
    [dir |-> <<"pack">>, base_url |-> <<"http://x">>, mc_version |-> <<"1.20.1">>]

BaseUrls == { <<"http://x">>, <<"http://x", "/">>, <<"http://x", "/", "/">>, <<"/">>, <<>> }
OptionalValues == { <<>>, <<"x">> }
AllKeys == Range(RequiredKeys) \cup OptionalKeys

Configs ==
    UNION { { [k \in K |-> IF k = "dir" THEN DefaultConfig.dir
                           ELSE IF k = "base_url" THEN u
                           ELSE IF k = "mc_version" THEN DefaultConfig.mc_version
                           ELSE opt[k]]
              : u \in BaseUrls, opt \in [OptionalKeys -> OptionalValues] }
            : K \in SUBSET AllKeys }

OldDoc ==
    [mc_version |-> <<"0.9">>, mod_loader |-> [type |-> <<"vanilla">>, version |-> <<>>],
     files |-> <<>>, java_args |-> <<>>, server_address |-> None]

File(content, fault) == Node("file", content, fault, NoDoc)
Dir == Node("dir", <<>>, "none", NoDoc)
Link == Node("link", <<>>, "none", NoDoc)
OldManifest == WriteFile(<<>>, ManifestName, OldDoc)[<< ManifestName >>]

Entry(path, node) == [path |-> path, node |-> node]

Candidates ==
    { Entry(<< <<"mods">> >>, Dir),
      Entry(<< <<"mods">> >>, Link),
      Entry(<< <<"mods">> >>, File(<<1>>, "none")),
      Entry(<< <<"resourcepacks">> >>, Dir),
      Entry(<< <<"shaderpacks">> >>, Dir),
      Entry(<< <<"config">> >>, Dir),
      Entry(<< <<"other">> >>, Dir),
      Entry(<< ManifestName >>, OldManifest),
      Entry(<< <<"mods">>, <<"a">> >>, File(<<1>>, "none")),
      Entry(<< <<"mods">>, <<"a">> >>, File(<<1>>, "open")),
      Entry(<< <<"mods">>, <<"a">> >>, File(<<1>>, "read")),
      Entry(<< <<"mods">>, <<"a">> >>, Dir),
      Entry(<< <<"mods">>, <<"a">> >>, Node("dir", <<>>, "list", NoDoc)),
      Entry(<< <<"mods">>, <<"a", Backslash, "b">> >>, File(<<0>>, "none")),
      Entry(<< <<"mods">>, <<"up">> >>, Link),
      Entry(<< <<"mods">>, <<"a">>, <<"b">> >>, File(<<1, 0>>, "none")),
      Entry(<< <<"config">>, <<"a">> >>, File(<<>>, "none")),
      Entry(<< <<"config">>, <<"a">> >>, File(<<>>, "stat")),
      Entry(<< <<"shaderpacks">>, <<"c">> >>, File(<<0>>, "none")),
      Entry(<< <<"other">>, <<"a">> >>, File(<<1>>, "none")) }

RECURSIVE UpTo(_, _)
UpTo(S, k) ==
    IF k = 0 THEN {{}}
    ELSE LET r == UpTo(S, k - 1) IN r \cup {s \cup {x} : s \in r, x \in S}

\* a set of entries is a tree the host can hold
WellFormed(t, hostsep) ==
    /\ \A x, y \in t : x.path = y.path => x = y
    /\ \A x \in t : Len(x.path) > 1 =>
          \E y \in t : y.path = SubSeq(x.path, 1, Len(x.path) - 1) /\ y.node.kind = "dir"
    /\ \A x \in t : \A i \in 1..Len(x.path) :
          Range(x.path[i]) \cap Seps(hostsep) = {}

TreeOf(t) == [p \in {x.path : x \in t} |-> (CHOOSE x \in t : x.path = p).node]

Trees(hostsep) == {TreeOf(t) : t \in {u \in UpTo(Candidates, MaxNodes) : WellFormed(u, hostsep)}}

DefaultTree ==
    TreeOf({ Entry(<< <<"mods">> >>, Dir),
             Entry(<< <<"mods">>, <<"a">> >>, File(<<1>>, "none")) })

RECURSIVE SeqsUpTo(_, _)
SeqsUpTo(S, n) ==
    IF n = 0 THEN {<<>>}
    ELSE LET r == SeqsUpTo(S, n - 1) IN r \cup {Append(q, x) : q \in r, x \in S}

Contents == SeqsUpTo(Bytes, MaxContent)

ContentTrees ==
    { TreeOf({ Entry(<< <<"mods">> >>, Dir),
               Entry(<< <<"mods">>, <<"a">> >>, File(c, "none")) }) : c \in Contents }

ManifestNode(f) == IF << ManifestName >> \in DOMAIN f THEN f[<< ManifestName >>] ELSE Absent

NoWalk == [stack |-> <<>>, root |-> <<>>, filenames |-> <<>>]
NoCur == [filename |-> <<>>, filepath |-> <<>>, rel_path |-> <<>>, size |-> 0,
          h |-> sha256_new, pos |-> 0, fed |-> <<>>, content |-> <<>>, sha256 |-> <<>>]
NoGen == [base_dir |-> <<>>, base_url |-> <<>>, mc_version |-> <<>>,
          loader_type |-> <<>>, loader_version |-> <<>>, java_args |-> <<>>,
          server_address |-> None]

\* the state of a process that has not run a statement of main yet
Fresh ==
    /\ pc = "main"
    /\ exitStatus = Running
    /\ gen = NoGen
    /\ files = <<>>
    /\ scanIdx = 1
    /\ walk = NoWalk
    /\ cur = NoCur
    /\ scanned = <<>>
    /\ generateCalled = FALSE

InitConfig ==
    /\ sep = Slash
    /\ chunk = MaxChunk
    /\ \/ cfgExists = FALSE /\ config = <<>>
       \/ cfgExists = TRUE /\ config \in Configs
    /\ fs \in {DefaultTree, WriteFile(DefaultTree, ManifestName, OldDoc)}

InitTree ==
    /\ sep \in {Slash, Backslash}
    /\ chunk = MaxChunk
    /\ cfgExists = TRUE
    /\ config = DefaultConfig
    /\ fs \in Trees(sep)

InitContent ==
    /\ sep = Slash
    /\ chunk \in 1..MaxChunk
    /\ cfgExists = TRUE
    /\ config = DefaultConfig
    /\ fs \in ContentTrees

Init ==
    /\ InitConfig \/ InitTree \/ InitContent
    /\ Fresh
    /\ runs = 1
    /\ outputs = <<>>
    /\ manifestAtStart = ManifestNode(fs)
    /\ envCount = 0

(***************************************************************************)
(* main                                                                    *)
(***************************************************************************)
\* the check with the loop cut to its first key
missing_required_first(c) == RequiredKeys[1] \notin DOMAIN c

\* the loop over the required keys finds one that is not in the configuration
missing_required(c) == \E i \in 1..Len(RequiredKeys) : RequiredKeys[i] \notin DOMAIN c

\* sys.exit(1), and the exit of the interpreter on an uncaught exception
Exit1 ==
    /\ pc' = "exited"
    /\ exitStatus' = 1

\* the error caught around one file, and the loop going on to the next file
IOErrorCaught ==
    /\ pc' = "file"
    /\ exitStatus' = exitStatus

\* what an IOError raised inside scan_files does to the run: nothing catches it
IOErrorRaised == Exit1

\* os.path.exists(config_path), json.load
MainLoad ==
    /\ pc = "main"
    /\ IF ~cfgExists
         THEN Exit1
         ELSE pc' = "check" /\ exitStatus' = exitStatus
    /\ UNCHANGED <<sep, chunk, cfgExists, config, fs, runs, gen, files, scanIdx, walk,
                   cur, scanned, outputs, manifestAtStart, generateCalled, envCount>>

\* the required-field check, then the call of generate
MainCheck ==
    /\ pc = "check"
    /\ IF missing_required(config)
         THEN Exit1 /\ generateCalled' = generateCalled
         ELSE pc' = "generate" /\ exitStatus' = exitStatus /\ generateCalled' = TRUE
    /\ UNCHANGED <<sep, chunk, cfgExists, config, fs, runs, gen, files, scanIdx, walk,
                   cur, scanned, outputs, manifestAtStart, envCount>>

(***************************************************************************)
(* generate, up to the call of scan_files                                  *)
(***************************************************************************)
\* dict.get(key, default)
get(c, key, default) == IF key \in DOMAIN c THEN c[key] ELSE default

\* the value kept as configured
or_none_keep(v) == v

\* v or None
or_none(v) == IF v = <<>> THEN None ELSE v

GenerateStart ==
    /\ pc = "generate"
    /\ IF \E k \in {"dir", "base_url", "mc_version"} : k \notin DOMAIN config
         THEN \* config[k] raises KeyError
              Exit1 /\ UNCHANGED <<gen, files, scanIdx>>
         ELSE /\ gen' = [base_dir |-> config["dir"],
                         base_url |-> config["base_url"],
                         mc_version |-> config["mc_version"],
                         loader_type |-> get(config, "loader_type", <<"vanilla">>),
                         loader_version |-> get(config, "loader_version", <<>>),
                         java_args |-> get(config, "java_args", <<"-Xmx4G -Xms2G">>),
                         server_address |-> or_none(get(config, "server_address", <<>>))]
              /\ files' = <<>>
              /\ scanIdx' = 1
              /\ pc' = "scan_dir"
              /\ exitStatus' = exitStatus
    /\ UNCHANGED <<sep, chunk, cfgExists, config, fs, runs, walk, cur, scanned, outputs,
                   manifestAtStart, generateCalled, envCount>>

(***************************************************************************)
(* scan_files                                                              *)
(***************************************************************************)
\* for scan_dir in SCAN_DIRS: the isdir test, and the return after the last one
ScanDir ==
    /\ pc = "scan_dir"
    /\ IF scanIdx > Len(SCAN_DIRS)
         THEN pc' = "write" /\ UNCHANGED <<scanIdx, walk>>
         ELSE LET full_dir == join(gen.base_dir, SCAN_DIRS[scanIdx], sep)
              IN  IF ~isdir(fs, PathOf(full_dir, gen.base_dir, sep))
                    THEN /\ scanIdx' = scanIdx + 1
                         /\ pc' = "scan_dir"
                         /\ walk' = walk
                    ELSE /\ walk' = [stack |-> <<full_dir>>, root |-> <<>>, filenames |-> <<>>]
                         /\ pc' = "walk"
                         /\ scanIdx' = scanIdx
    /\ UNCHANGED <<sep, chunk, cfgExists, config, fs, exitStatus, runs, gen, files, cur,
                   scanned, outputs, manifestAtStart, generateCalled, envCount>>

\* a listing of the scan directory alone, without descent
walk_dirs_none(f, top, order, base, hostsep) == <<>>

\* the directories os.walk goes on to visit below top: those listed as
\* directories that are not symbolic links, in the order of the listing
walk_dirs(f, top, order, base, hostsep) ==
    LET paths == [i \in 1..Len(order) |-> join(top, order[i], hostsep)]
    IN  SelectSeq(paths, LAMBDA d : ~islink(f, PathOf(d, base, hostsep)))

\* one step of os.walk: the next directory is listed, or the walk ends
WalkDir ==
    /\ pc = "walk"
    /\ IF walk.stack = <<>>
         THEN /\ scanIdx' = scanIdx + 1
              /\ pc' = "scan_dir"
              /\ walk' = walk
         ELSE LET top == Head(walk.stack)
                  here == PathOf(top, gen.base_dir, sep)
                  names == Listing(fs, here)
                  dirs == {n \in names : isdir(fs, Append(here, n))}
                  nondirs == names \ dirs
              IN  \E fo \in Orders(nondirs), do \in Orders(dirs) :
                    /\ walk' = [stack |-> walk_dirs(fs, top, do, gen.base_dir, sep)
                                            \o Tail(walk.stack),
                                root |-> top,
                                filenames |-> fo]
                    /\ pc' = "file"
                    /\ scanIdx' = scanIdx
    /\ UNCHANGED <<sep, chunk, cfgExists, config, fs, exitStatus, runs, gen, files, cur,
                   scanned, outputs, manifestAtStart, generateCalled, envCount>>

\* rel_path of a file
make_rel_path(filepath, base_dir, hostsep) ==
    replace(relpath(filepath, base_dir, hostsep), Backslash, Slash)

\* for filename in filenames: filepath and rel_path
NextFile ==
    /\ pc = "file"
    /\ IF walk.filenames = <<>>
         THEN pc' = "walk" /\ UNCHANGED <<walk, cur>>
         ELSE LET filename == Head(walk.filenames)
                  filepath == join(walk.root, filename, sep)
              IN  /\ cur' = [NoCur EXCEPT !.filename = filename,
                                          !.filepath = filepath,
                                          !.rel_path = make_rel_path(filepath, gen.base_dir, sep)]
                  /\ walk' = [walk EXCEPT !.filenames = Tail(walk.filenames)]
                  /\ pc' = "getsize"
    /\ UNCHANGED <<sep, chunk, cfgExists, config, fs, exitStatus, runs, gen, files, scanIdx,
                   scanned, outputs, manifestAtStart, generateCalled, envCount>>

\* the node a path string names, links followed
Lookup(f, str, base, hostsep) ==
    LET r == Resolve(f, PathOf(str, base, hostsep))
    IN  IF r \in DOMAIN f THEN f[r] ELSE Absent

\* os.path.getsize(filepath)
GetSize ==
    /\ pc = "getsize"
    /\ LET node == Lookup(fs, cur.filepath, gen.base_dir, sep)
       IN  IF node = Absent \/ node.fault = "stat"
             THEN IOErrorRaised /\ cur' = cur
             ELSE /\ cur' = [cur EXCEPT !.size = Len(node.content)]
                  /\ pc' = "open"
                  /\ exitStatus' = exitStatus
    /\ UNCHANGED <<sep, chunk, cfgExists, config, fs, runs, gen, files, scanIdx, walk,
                   scanned, outputs, manifestAtStart, generateCalled, envCount>>

(***************************************************************************)
(* sha256_file                                                             *)
(***************************************************************************)
\* hashlib.sha256() and open(filepath, "rb")
OpenFile ==
    /\ pc = "open"
    /\ LET node == Lookup(fs, cur.filepath, gen.base_dir, sep)
       IN  IF node = Absent \/ node.fault \in {"stat", "open"}
             THEN IOErrorRaised /\ cur' = cur
             ELSE /\ cur' = [cur EXCEPT !.h = sha256_new, !.pos = 0, !.fed = <<>>,
                                        !.content = node.content]
                  /\ pc' = "read"
                  /\ exitStatus' = exitStatus
    /\ UNCHANGED <<sep, chunk, cfgExists, config, fs, runs, gen, files, scanIdx, walk,
                   scanned, outputs, manifestAtStart, generateCalled, envCount>>

\* f.read(n) at offset pos
read(content, pos, n) == SubSeq(content, pos + 1, Min(pos + n, Len(content)))

\* the loop ending on the first chunk shorter than asked for
at_eof_short(data, n) == Len(data) < n

\* the sentinel of iter(..., b""): the loop ends on an empty chunk
at_eof(data, n) == data = <<>>

\* one turn of the chunk loop: f.read(8192), then h.update(chunk) or the end
ReadChunk ==
    /\ pc = "read"
    /\ LET node == Lookup(fs, cur.filepath, gen.base_dir, sep)
           content == IF node = Absent THEN <<>> ELSE node.content
           data == read(content, cur.pos, chunk)
       IN  IF node # Absent /\ node.fault = "read"
             THEN IOErrorRaised /\ cur' = cur
             ELSE /\ IF at_eof(data, chunk)
                       THEN /\ cur' = [cur EXCEPT !.sha256 = hexdigest(cur.h)]
                            /\ pc' = "append"
                       ELSE /\ cur' = [cur EXCEPT !.h = sha256_update(cur.h, data),
                                                  !.pos = cur.pos + Len(data),
                                                  !.fed = cur.fed \o data]
                            /\ pc' = "read"
                  /\ exitStatus' = exitStatus
    /\ UNCHANGED <<sep, chunk, cfgExists, config, fs, runs, gen, files, scanIdx, walk,
                   scanned, outputs, manifestAtStart, generateCalled, envCount>>

\* the url built without rstrip
make_url_norstrip(base_url, rel_path) == base_url \o <<Slash>> \o rel_path

\* url of a File Record
make_url(base_url, rel_path) == rstrip(base_url, Slash) \o <<Slash>> \o rel_path

\* files.append({...})
AppendRecord ==
    /\ pc = "append"
    /\ files' = Append(files, [path |-> cur.rel_path,
                               sha256 |-> cur.sha256,
                               url |-> make_url(gen.base_url, cur.rel_path),
                               size |-> cur.size,
                               required |-> TRUE])
    /\ scanned' = Append(scanned, [at |-> PathOf(cur.filepath, gen.base_dir, sep),
                                   content |-> cur.content,
                                   fed |-> cur.fed])
    /\ pc' = "file"
    /\ UNCHANGED <<sep, chunk, cfgExists, config, fs, exitStatus, runs, gen, scanIdx, walk,
                   cur, outputs, manifestAtStart, generateCalled, envCount>>

(***************************************************************************)
(* generate, after scan_files has returned                                 *)
(***************************************************************************)
Manifest(g, fl) ==
    [mc_version |-> g.mc_version,
     mod_loader |-> [type |-> g.loader_type, version |-> g.loader_version],
     files |-> fl,
     java_args |-> g.java_args,
     server_address |-> g.server_address]

\* the manifest is built and written; main returns
WriteManifest ==
    /\ pc = "write"
    /\ LET manifest == Manifest(gen, files)
       IN  /\ fs' = WriteFile(fs, ManifestName, manifest)
           /\ outputs' = Append(outputs, manifest)
    /\ pc' = "exited"
    /\ exitStatus' = 0
    /\ UNCHANGED <<sep, chunk, cfgExists, config, runs, gen, files, scanIdx, walk, cur,
                   scanned, manifestAtStart, generateCalled, envCount>>

(***************************************************************************)
(* The generator is started again with the same configuration.            *)
(***************************************************************************)
Rerun ==
    /\ pc = "exited"
    /\ runs < MaxRuns
    /\ runs' = runs + 1
    /\ pc' = "main"
    /\ exitStatus' = Running
    /\ gen' = NoGen
    /\ files' = <<>>
    /\ scanIdx' = 1
    /\ walk' = NoWalk
    /\ cur' = NoCur
    /\ scanned' = <<>>
    /\ generateCalled' = FALSE
    /\ manifestAtStart' = ManifestNode(fs)
    /\ UNCHANGED <<sep, chunk, cfgExists, config, fs, outputs, envCount>>

(***************************************************************************)
(* Another process writes to a file below the base directory.              *)
(***************************************************************************)
EnvWrite ==
    /\ envCount < MaxEnv
    /\ \E p \in DOMAIN fs, c \in Contents :
          /\ fs[p].kind = "file"
          /\ p # << ManifestName >>
          /\ c # fs[p].content
          /\ fs' = [fs EXCEPT ![p].content = c]
    /\ envCount' = envCount + 1
    /\ UNCHANGED <<sep, chunk, cfgExists, config, pc, exitStatus, runs, gen, files, scanIdx,
                   walk, cur, scanned, outputs, manifestAtStart, generateCalled>>

Next ==
    \/ MainLoad
    \/ MainCheck
    \/ GenerateStart
    \/ ScanDir
    \/ WalkDir
    \/ NextFile
    \/ GetSize
    \/ OpenFile
    \/ ReadChunk
    \/ AppendRecord
    \/ WriteManifest
    \/ Rerun

Spec == Init /\ [][Next]_vars

InitEnv ==
    /\ InitContent
    /\ Fresh
    /\ runs = 1
    /\ outputs = <<>>
    /\ manifestAtStart = ManifestNode(fs)
    /\ envCount = 0

NextEnv == Next \/ EnvWrite

SpecEnv == InitEnv /\ [][NextEnv]_vars

(***************************************************************************)
(* Properties.                                                             *)
(***************************************************************************)
ConfigOk == cfgExists /\ {"dir", "base_url", "mc_version"} \subseteq DOMAIN config

\* the paths, as scan_files names them, of the files found below the scan
\* directories of a file system: below a scan directory that is a directory
\* or a link to one, through directories that can be listed only
ExpectedFiles(f) ==
    UNION { LET top == << SCAN_DIRS[s] >>
                root == IF top \in DOMAIN f /\ f[top].kind = "dir" THEN top ELSE <<>>
            IN  IF top \notin DOMAIN f \/ f[top].kind = "file" THEN {}
                ELSE { top \o SubSeq(m, Len(root) + 1, Len(m)) :
                         m \in { n \in DOMAIN f :
                                   /\ Len(n) > Len(root)
                                   /\ IsPrefix(root, n)
                                   /\ (root = <<>> \/ f[root].fault = "none")
                                   /\ f[n].kind = "file"
                                   /\ \A j \in (Len(root) + 1)..(Len(n) - 1) :
                                         /\ f[SubSeq(n, 1, j)].kind = "dir"
                                         /\ f[SubSeq(n, 1, j)].fault = "none" } }
            : s \in 1..Len(SCAN_DIRS) }

\* C1: a run whose configuration file does not exist, or lacks a required
\* key, never calls generate, never leaves main's checks except by exiting
\* with status 1, and leaves <dir>/manifest.json as it was (absent or
\* unchanged); no manifest is ever written.
C1_BadConfigExits1 ==
    ~ConfigOk =>
        /\ ~generateCalled
        /\ pc \in {"main", "check", "exited"}
        /\ (pc = "exited" => exitStatus = 1)
        /\ ManifestNode(fs) = manifestAtStart
        /\ outputs = <<>>

C1_Witness ==
    /\ cfgExists
    /\ "mc_version" \notin DOMAIN config
    /\ {"dir", "base_url"} \subseteq DOMAIN config
    /\ pc = "exited"
    /\ exitStatus = 1
    /\ ManifestNode(fs) # Absent

StripOneSlash(u) ==
    IF u # <<>> /\ u[Len(u)] = Slash THEN SubSeq(u, 1, Len(u) - 1) ELSE u

\* the prefixes of base_url that end where its trailing slashes begin
StripAllSlashes(u) ==
    { SubSeq(u, 1, k) : k \in { j \in 0..Len(u) :
                                  /\ \A i \in (j + 1)..Len(u) : u[i] = Slash
                                  /\ (j = 0 \/ u[j] # Slash) } }

\* the names of a path, each with its backslashes written as slashes, joined
\* by slashes
SlashedPath(at) ==
    JoinWith([k \in 1..Len(at) |-> [i \in 1..Len(at[k]) |->
                 IF at[k][i] = Backslash THEN Slash ELSE at[k][i]]], Slash)

\* C3 as stated: url is base_url with its trailing slash removed, then one
\* "/", then path; path is the relative path written with forward slashes
\* only.
C3_Original ==
    \A i \in 1..Len(files) :
        /\ files[i].url = StripOneSlash(gen.base_url) \o <<Slash>> \o files[i].path
        /\ files[i].path = SlashedPath(scanned[i].at)
        /\ Backslash \notin Range(files[i].path)

\* C3 as amended: url is base_url with all of its trailing slashes removed,
\* then one "/", then path; path is the relative path with every host
\* separator and every backslash written as "/".
C3_UrlAndPath ==
    \A i \in 1..Len(files) :
        /\ \E prefix \in StripAllSlashes(gen.base_url) :
              files[i].url = prefix \o <<Slash>> \o files[i].path
        /\ files[i].path = SlashedPath(scanned[i].at)
        /\ Backslash \notin Range(files[i].path)

C3_Witness ==
    /\ gen.base_url = <<"http://x", Slash, Slash>>
    /\ \E i \in 1..Len(files) : files[i].url = <<"http://x", Slash, "mods", Slash, "a">>

\* C4: no two File Records of one run have the same path.
C4_DistinctPaths ==
    \A i, j \in 1..Len(files) : i # j => files[i].path # files[j].path

\* C5: resolving the recorded path against the base directory gives the
\* path of the file that was scanned for the record.
C5_RoundTrip ==
    \A i \in 1..Len(files) : SplitPath(files[i].path, sep) = scanned[i].at

\* C6: a failure of getsize, open or read is not caught: no record is made
\* for a failing file and scan_files does not return when a file below the
\* scan directories fails; the run that fails exits with status 1 and leaves
\* <dir>/manifest.json as it was, writing no manifest.
C6_ScanFailureAborts ==
    /\ \A i \in 1..Len(scanned) :
          LET r == Resolve(fs, scanned[i].at)
          IN  r \in DOMAIN fs => fs[r].fault = "none"
    /\ pc = "write" =>
          \A e \in ExpectedFiles(fs) : fs[Resolve(fs, e)].fault = "none"
    /\ (pc = "exited" /\ generateCalled /\ ConfigOk /\ exitStatus # 0) =>
          /\ exitStatus = 1
          /\ ManifestNode(fs) = manifestAtStart
          /\ Len(outputs) < runs
          /\ LET node == Lookup(fs, cur.filepath, gen.base_dir, sep)
             IN  node # Absent /\ node.fault # "none"

C6_Witness ==
    /\ pc = "exited"
    /\ exitStatus = 1
    /\ generateCalled
    /\ Len(files) > 0
    /\ ManifestNode(fs) # Absent
    /\ ManifestNode(fs) = manifestAtStart

\* the File Records of a manifest, as a set
RecordSet(doc) == {doc.files[i] : i \in 1..Len(doc.files)}

\* C7: two runs with the same configuration over a tree that nothing else
\* changes write manifests with the same metadata and the same set of File
\* Records, and the second run does not scan the manifest.json the first
\* run wrote.
C7_Idempotent ==
    /\ Len(outputs) >= 2 =>
          /\ [outputs[1] EXCEPT !.files = <<>>] = [outputs[2] EXCEPT !.files = <<>>]
          /\ RecordSet(outputs[1]) = RecordSet(outputs[2])
    /\ (runs >= 2 /\ Len(outputs) >= 1) =>
          \A i \in 1..Len(scanned) : Resolve(fs, scanned[i].at) # << ManifestName >>

\* C8: the sha256 of every File Record is the digest of the whole content of
\* the file, hashed at once, and the chunk loop has fed the hasher exactly
\* that content, whatever the chunk size.
C8_DigestOfFullContent ==
    \A i \in 1..Len(files) :
        /\ scanned[i].fed = scanned[i].content
        /\ files[i].sha256 = hexdigest(sha256_update(sha256_new, scanned[i].content))

C8_Witness ==
    /\ pc = "exited"
    /\ exitStatus = 0
    /\ \E i \in 1..Len(files) :
          /\ Len(scanned[i].content) > chunk
          /\ files[i].sha256 = hexdigest(sha256_update(sha256_new, scanned[i].content))

\* C9: the metadata of a written manifest: mc_version verbatim; loader type,
\* loader version and java_args as configured, or "vanilla", "" and
\* "-Xmx4G -Xms2G" when absent; server_address null exactly when it is
\* absent or empty, and the configured string otherwise.
C9_Metadata ==
    (pc = "exited" /\ exitStatus = 0) =>
        LET m == outputs[Len(outputs)]
            has(k) == k \in DOMAIN config
        IN  /\ m.mc_version = config["mc_version"]
            /\ has("loader_type") => m.mod_loader.type = config["loader_type"]
            /\ ~has("loader_type") => m.mod_loader.type = <<"vanilla">>
            /\ has("loader_version") => m.mod_loader.version = config["loader_version"]
            /\ ~has("loader_version") => m.mod_loader.version = <<>>
            /\ has("java_args") => m.java_args = config["java_args"]
            /\ ~has("java_args") => m.java_args = <<"-Xmx4G -Xms2G">>
            /\ (m.server_address = None) <=>
                  (~has("server_address") \/ config["server_address"] = <<>>)
            /\ m.server_address # None => m.server_address = config["server_address"]
            /\ ManifestNode(fs).doc = m

C9_Witness ==
    /\ pc = "exited"
    /\ exitStatus = 0
    /\ "server_address" \in DOMAIN config
    /\ config["server_address"] = <<>>
    /\ "java_args" \notin DOMAIN config
    /\ "loader_type" \in DOMAIN config
    /\ outputs[Len(outputs)].server_address = None

\* C10: in every File Record, size is the number of bytes that were fed to
\* the hasher for that file.
C10_SizeMatchesHashedBytes ==
    \A i \in 1..Len(files) : files[i].size = Len(scanned[i].fed)

====
